---------------------------- MODULE Spec2Model ----------------------------
(***************************************************************************)
(* The research-paper workflow of src/src/assistant: the stage graph of    *)
(* graph.py (build_graph), its thirteen stage functions, its three routers *)
(* and the shared ResearchPaperState of state.py.                          *)
(*                                                                         *)
(* The engine is single-threaded: `node` is the stage that runs next, one  *)
(* action executes one whole stage function and then evaluates the edge    *)
(* leaving it.  The generation backend and the retrieval backend are the   *)
(* environment: every stage draws their answers from small sets.  Texts    *)
(* are abstracted to what the code looks at: whether a stripped answer is  *)
(* empty, which words a verdict contains, whether JSON parses.             *)
(***************************************************************************)
EXTENDS Integers, Sequences, FiniteSets, TLC

VARIABLES
    state,              \* the ResearchPaperState instance threaded through the run
    node,               \* the stage the engine executes next ("END": the run is over)
    last,               \* history: the stage executed last ("START" before the first)
    validation_checks,  \* history: validation_check executions since the last draft_section
    targeted_runs,      \* history: targeted_research executions since the last draft_section
    gap_cycles,         \* history: times completion_check routed back to identify_knowledge_gaps
    gap_answer,         \* history: the gap-analysis answer the stage that ran last was given
    tavily_api_key,     \* os.environ: whether TAVILY_API_KEY is set for this run
    calls,              \* history: the backend calls the stage that ran last has made
    surfaced,           \* the exception graph.invoke has raised to its caller, if any
    utils_call,         \* the call of a function of utils.py made last: arguments, result
    record_calls        \* history: the record_verification calls made on the state

vars == <<state, node, last, validation_checks, targeted_runs, gap_cycles,
          gap_answer, tavily_api_key, calls, surfaced, utils_call,
          record_calls>>

---------------------------------------------------------------------------
(* Bounds of the model (none of them is a constant of the program).        *)

\* retrieval calls the backends make necessary in one run: once this many
\* payloads are stored, gap analysis reports no further gap
MaxRetrievals == 4
\* gap_cycles stops counting here
MaxGapCycles == 8

\* arguments of the functions of utils.py
MaxResults == 2
MaxResponses == 2
MaxRawContent == 5
MaxTokensPerSource == 1
\* record_verification calls made on one state
MaxVerifications == 3

(* Constants of the program.                                               *)
max_web_research_loops == 3
max_section_revisions == 1
max_targeted_research_attempts == 2
knowledge_gap_threshold == 2

---------------------------------------------------------------------------
(* Values.                                                                 *)

None == "None"          \* Python's None in a text field
Blank == ""             \* a generation answer that is empty after strip()
Text == "text"          \* any non-empty generation answer after strip()

EmptyDict == [k \in {} |-> None]

Min(a, b) == IF a <= b THEN a ELSE b

SetMax(S) == CHOOSE m \in S : \A x \in S : x <= m

Range(seq) == {seq[i] : i \in 1..Len(seq)}

RECURSIVE Flatten(_)
Flatten(seqs) ==
    IF seqs = <<>> THEN <<>> ELSE Head(seqs) \o Flatten(Tail(seqs))

\* draft_section's section_order
section_order ==
    <<"abstract", "introduction", "literature_review", "methodology",
      "results", "discussion", "conclusion", "references">>

\* completion_check's required_sections
required_sections ==
    <<"abstract", "introduction", "literature_review", "conclusion", "references">>

\* list.index: the first position of x in seq (0 stands for ValueError)
IndexOf(seq, x) ==
    IF x \in Range(seq)
    THEN CHOOSE i \in 1..Len(seq) : seq[i] = x /\ \A j \in 1..(i - 1) : seq[j] # x
    ELSE 0

\* Python truthiness of a text field: None and "" are falsy
Truthy(text) == text # None /\ text # Blank

---------------------------------------------------------------------------
(* The retrieval backend: records and the payloads tavily_search returns.  *)

SourceA == [url |-> "u1", title |-> "t1"]
SourceB == [url |-> "u1", title |-> "t2"]
SourceC == [url |-> "u2", title |-> "t3"]

\* the 'results' lists a search that succeeds comes back with: three hits, two
\* of them for the same URL
SearchResults == {<<SourceA, SourceB, SourceC>>}

\* what TavilyClient.search does: it raises, or it returns a payload
ClientSearches ==
    {[raises |-> TRUE, results |-> <<>>]} \cup
    {[raises |-> FALSE, results |-> results] : results \in SearchResults}

\* the records tavily_search makes up when it cannot search
ApiKeyErrorSource == [url |-> "https://example.com", title |-> "API Key Error"]
SearchErrorSource == [url |-> "https://example.com", title |-> "Error in search"]

\* tavily_search: no client without an API key; a client whose search raises
\* is caught
tavily_search(api_key, client_search) ==
    IF ~api_key THEN [results |-> <<ApiKeyErrorSource>>]
    ELSE IF client_search.raises THEN [results |-> <<SearchErrorSource>>]
    ELSE [results |-> client_search.results]

\* unique_sources filled by plain assignment: the last source of a URL wins
RECURSIVE UniqueFrom_last_seen(_, _)
UniqueFrom_last_seen(sources_list, unique_sources) ==
    IF sources_list = <<>> THEN unique_sources
    ELSE LET source == Head(sources_list) IN
         IF \E i \in 1..Len(unique_sources) : unique_sources[i].url = source.url
         THEN UniqueFrom_last_seen(Tail(sources_list),
                  [i \in 1..Len(unique_sources) |->
                      IF unique_sources[i].url = source.url THEN source
                      ELSE unique_sources[i]])
         ELSE UniqueFrom_last_seen(Tail(sources_list),
                                   Append(unique_sources, source))

\* unique_sources of deduplicate_and_format_sources: a dict keyed by URL that
\* keeps the first source of each URL, in insertion order
RECURSIVE UniqueFrom(_, _)
UniqueFrom(sources_list, unique_sources) ==
    IF sources_list = <<>> THEN unique_sources
    ELSE LET source == Head(sources_list) IN
         IF \E i \in 1..Len(unique_sources) : unique_sources[i].url = source.url
         THEN UniqueFrom(Tail(sources_list), unique_sources)
         ELSE UniqueFrom(Tail(sources_list), Append(unique_sources, source))

\* deduplicate_and_format_sources on one response dict: the digest text, kept
\* as the sequence of source blocks it is made of
deduplicate_and_format_sources(search_response) ==
    UniqueFrom(search_response.results, <<>>)

\* sources_list of deduplicate_and_format_sources when it is given a list of
\* response dicts: their 'results', one after the other
sources_list_of(search_responses) ==
    Flatten([i \in 1..Len(search_responses) |-> search_responses[i].results])

\* a text as the sequence of its characters
Chars(n, c) == [i \in 1..n |-> c]

\* the marker deduplicate_and_format_sources puts behind a cut raw_content:
\* "... [truncated]"
truncated_marker ==
    <<".", ".", ".", " ", "[", "t", "r", "u", "n", "c", "a", "t", "e", "d", "]">>

\* no raw_content in the source dict, or raw_content: None
MissingRawContent == [given |-> FALSE, is_none |-> FALSE, text |-> <<>>]
NoneRawContent == [given |-> TRUE, is_none |-> TRUE, text |-> <<>>]
RawContent(text) == [given |-> TRUE, is_none |-> FALSE, text |-> text]

\* the cut made already at char_limit characters, not only beyond
raw_content_limited_at_limit(raw, max_tokens_per_source) ==
    LET char_limit == max_tokens_per_source * 4
        raw_content == IF ~raw.given \/ raw.is_none THEN <<>> ELSE raw.text
    IN  IF Len(raw_content) >= char_limit
        THEN SubSeq(raw_content, 1, char_limit) \o truncated_marker
        ELSE raw_content

\* the raw_content deduplicate_and_format_sources writes into the block of a
\* source: source.get('raw_content', ''), None taken as '', cut at char_limit
raw_content_limited(raw, max_tokens_per_source) ==
    LET char_limit == max_tokens_per_source * 4
        raw_content == IF ~raw.given \/ raw.is_none THEN <<>> ELSE raw.text
    IN  IF Len(raw_content) > char_limit
        THEN SubSeq(raw_content, 1, char_limit) \o truncated_marker
        ELSE raw_content

\* dict.get(key, default)
Get(dict, key, default) == IF key \in DOMAIN dict THEN dict[key] ELSE default

\* str.upper() on the citation styles a caller passes and on the names of the
\* fields of Configuration
Upper(citation_style) ==
    CASE citation_style \in {"APA", "apa"} -> "APA"
      [] citation_style \in {"MLA", "mla"} -> "MLA"
      [] citation_style \in {"Chicago", "CHICAGO"} -> "CHICAGO"
      [] citation_style \in {"IEEE", "ieee"} -> "IEEE"
      [] citation_style = "max_targeted_research_attempts" ->
             "MAX_TARGETED_RESEARCH_ATTEMPTS"
      [] citation_style = "citation_style" -> "CITATION_STYLE"
      [] OTHER -> citation_style

\* datetime.now().strftime('%B %d, %Y')
current_date == "November 01, 2026"

\* format_citation with 'Unknown' as the default author
format_citation_unknown_author(source, citation_style) ==
    LET title == Get(source, "title", "No title")
        url == Get(source, "url", "")
        author == Get(source, "author", "Unknown")
        published_date == Get(source, "published_date", "")
    IN  IF Upper(citation_style) = "MLA"
        THEN <<author, ". \"", title, ".\" Web. ", current_date, ". <", url, ">.">>
        ELSE IF Upper(citation_style) = "CHICAGO"
        THEN <<author, ". \"", title, ".\" Accessed ", current_date, ". ", url, ".">>
        ELSE IF Upper(citation_style) = "IEEE"
        THEN <<"[", Get(source, "citation_number", "1"), "] ", author, ", \"",
               title, ",\" ",
               IF published_date # "" THEN published_date ELSE "n.d.",
               ", [Online]. Available: ", url, ". [Accessed: ", current_date,
               "].">>
        ELSE <<author, ". (",
               IF Upper(citation_style) = "APA" /\ published_date # ""
               THEN published_date ELSE "n.d.",
               "). ", title, ". Retrieved on ", current_date, " from ", url>>

\* format_citation: the citation as the sequence of the pieces the f-string
\* puts one after the other
format_citation(source, citation_style) ==
    LET title == Get(source, "title", "No title")
        url == Get(source, "url", "")
        author == Get(source, "author", "No author")
        published_date == Get(source, "published_date", "")
    IN  IF Upper(citation_style) = "APA"
        THEN <<author, ". (",
               IF published_date # "" THEN published_date ELSE "n.d.",
               "). ", title, ". Retrieved on ", current_date, " from ", url>>
        ELSE IF Upper(citation_style) = "MLA"
        THEN <<author, ". \"", title, ".\" Web. ", current_date, ". <", url, ">.">>
        ELSE IF Upper(citation_style) = "CHICAGO"
        THEN <<author, ". \"", title, ".\" Accessed ", current_date, ". ", url, ".">>
        ELSE IF Upper(citation_style) = "IEEE"
        THEN <<"[", Get(source, "citation_number", "1"), "] ", author, ", \"",
               title, ",\" ",
               IF published_date # "" THEN published_date ELSE "n.d.",
               ", [Online]. Available: ", url, ". [Accessed: ", current_date,
               "].">>
        ELSE <<author, ". (", "n.d.", "). ", title, ". Retrieved on ",
               current_date, " from ", url>>

---------------------------------------------------------------------------
(* configuration.py: Python values by type, and from_runnable_config.      *)

PyNone == [kind |-> "NoneType", text |-> ""]
PyInt(n) == [kind |-> "int", text |-> ToString(n)]
PyStr(chars) == [kind |-> "str", text |-> chars]
PyBool(b) == [kind |-> "bool", text |-> IF b THEN "True" ELSE "False"]

\* `if v` is false for these
Falsy(v) == v \in {PyNone, PyInt(0), PyStr(""), PyBool(FALSE)}

\* two of the fields of Configuration, with their defaults
ConfigurationFields == {"max_targeted_research_attempts", "citation_style"}

ConfigurationDefaults ==
    [max_targeted_research_attempts |-> PyInt(max_targeted_research_attempts),
     citation_style |-> PyStr("APA")]

\* a RunnableConfig: None, a dict without 'configurable', or one with it
NoneConfig == [is_none |-> TRUE, has_configurable |-> FALSE,
               configurable |-> [k \in {} |-> PyNone]]
PlainConfig == [is_none |-> FALSE, has_configurable |-> FALSE,
                configurable |-> [k \in {} |-> PyNone]]
ConfigurableConfig(configurable) ==
    [is_none |-> FALSE, has_configurable |-> TRUE, configurable |-> configurable]

\* from_runnable_config that drops only None
from_runnable_config_keeping_falsy(environ, config) ==
    LET configurable == IF ~config.is_none /\ config.has_configurable
                        THEN config.configurable ELSE [k \in {} |-> PyNone]
        values == [name \in ConfigurationFields |->
                      IF Upper(name) \in DOMAIN environ
                      THEN PyStr(environ[Upper(name)])
                      ELSE Get(configurable, name, PyNone)]
    IN  [name \in ConfigurationFields |->
            IF values[name] # PyNone THEN values[name]
            ELSE ConfigurationDefaults[name]]

\* Configuration.from_runnable_config: the values dict, then the instance
\* made of its truthy entries, the other fields at their defaults
from_runnable_config(environ, config) ==
    LET configurable == IF ~config.is_none /\ config.has_configurable
                        THEN config.configurable ELSE [k \in {} |-> PyNone]
        values == [name \in ConfigurationFields |->
                      IF Upper(name) \in DOMAIN environ
                      THEN PyStr(environ[Upper(name)])
                      ELSE Get(configurable, name, PyNone)]
        kept == {name \in ConfigurationFields : ~Falsy(values[name])}
    IN  [name \in ConfigurationFields |->
            IF name \in kept THEN values[name]
            ELSE ConfigurationDefaults[name]]

---------------------------------------------------------------------------
(* The generation backend.                                                 *)

\* a verdict text, as the words of it the heuristic of validation_check can see
ValidationResponses ==
    {<<"sufficient", "comprehensive">>, <<"insufficient">>,
     <<"insufficient", "comprehensive">>}

\* Python's `sub in text.lower()` on such a text
Contains(text, sub) ==
    \E i \in 1..Len(text) :
        \/ text[i] = sub
        \/ text[i] = "insufficient" /\ sub = "sufficient"

\* an entry of an object (or an element of a list, key None) whose value is a
\* gap record, a dict with a description
Gap(key, description) ==
    [key |-> key, is_dict |-> TRUE, description |-> description]

\* an entry whose value is no dict (a string, say)
NonDictEntry(key) == [key |-> key, is_dict |-> FALSE, description |-> None]

\* What json.loads can return: an object (an ordered dict, kept as the
\* sequence of its entries), a list (the sequence of its elements), or a
\* number or a string (kept as one entry that carries its digits or its
\* characters; the empty string has none).
JsonObject(items) == [type |-> "object", items |-> items]
JsonList(items) == [type |-> "list", items |-> items]
JsonNumber(digits) == [type |-> "number", items |-> <<NonDictEntry(digits)>>]
JsonString(chars) ==
    [type |-> "string",
     items |-> IF chars = "" THEN <<>> ELSE <<NonDictEntry(chars)>>]

\* Python truthiness of such a value: non-zero number, non-empty container
PyTruthy(v) ==
    IF v.type = "number" THEN v # JsonNumber("0") ELSE v.items # <<>>

\* whether len() accepts the value (a number has no len(): TypeError)
HasLen(v) == v.type # "number"

\* the dict identify_knowledge_gaps substitutes when json.loads raises
FallbackGaps == JsonObject(<<Gap("gap_1", "Unable to parse knowledge gaps")>>)

NoGaps == [json |-> TRUE, value |-> JsonObject(<<>>)]

\* gap_answer of a stage that asks for no gap analysis
NoAnswer == [json |-> FALSE, value |-> JsonList(<<>>)]

\* answers to the knowledge-gap prompt: text that is not JSON, a JSON object of
\* gap records, or JSON of another shape
GapAnswersAll ==
    {[json |-> FALSE, value |-> JsonObject(<<>>)],
     NoGaps,
     [json |-> TRUE, value |-> JsonObject(<<Gap("gap_1", "d1")>>)],
     [json |-> TRUE,
      value |-> JsonObject(<<Gap("gap_1", "d1"), Gap("gap_2", "d2")>>)],
     [json |-> TRUE, value |-> JsonList(<<Gap(None, "d1")>>)],
     [json |-> TRUE, value |-> JsonNumber("5")],
     [json |-> TRUE, value |-> JsonString("no gaps found")],
     [json |-> TRUE, value |-> JsonObject(<<NonDictEntry("gaps")>>)]}

\* within the retrieval bound any answer; beyond it only "no gap"
GapAnswers(s) ==
    IF Len(s.web_research_results) < MaxRetrievals
    THEN GapAnswersAll
    ELSE {NoGaps}

\* the sections for which the backend may answer the drafting prompt with
\* nothing but white space
BlankProne == {"introduction", "references"}

\* stripped answers to the drafting prompt for the current section
DraftAnswers(s) ==
    IF s.current_section \in BlankProne THEN {Text, Blank} ELSE {Text}

---------------------------------------------------------------------------
(* ResearchPaperState.                                                     *)

\* the keys of validation_status
validation_status_keys ==
    {"sources_verified", "outline_approved", "methodology_sound",
     "results_consistent", "citations_complete"}

\* the dataclass defaults
DefaultState ==
    [research_topic |-> None,
     working_title |-> None,
     thesis_statement |-> None,
     search_query |-> None,
     web_research_results |-> <<>>,
     sources_gathered |-> <<>>,
     research_loop_count |-> 0,
     literature_summary |-> <<>>,          \* <<>>: None; else the parts of the text
     validation_result |-> EmptyDict,
     validation_passed |-> FALSE,
     knowledge_gaps |-> JsonObject(<<>>),
     outline |-> None,
     sections |-> [k \in Range(section_order) |-> None],
     citations |-> [sources |-> <<>>, formatted |-> None],
     current_section |-> "introduction",
     completed_sections |-> <<>>,
     all_sections_complete |-> FALSE,
     coherence_analysis |-> None,
     running_summary |-> None,
     validation_status |-> [k \in validation_status_keys |-> FALSE],
     human_verification_required |-> FALSE,
     human_feedback |-> None,
     verification_history |-> <<>>,
     verification_step |-> None,
     final_paper |-> None,
     citation_style |-> "APA"]

\* The graph is compiled over ResearchPaperState with no narrower input schema,
\* so a caller's input may set any field.  Two inputs: the topic alone, and a
\* resumed paper whose abstract is already written.
TopicOnlyInput == [DefaultState EXCEPT !.research_topic = "topic"]

ResumedInput ==
    [DefaultState EXCEPT !.research_topic = "topic",
                         !.sections = [@ EXCEPT !["abstract"] = Text],
                         !.completed_sections = <<"abstract">>]

Inputs == {TopicOnlyInput, ResumedInput}

\* record_verification that stores the approval under any step name
record_verification_any_step(s, step, feedback, approved) ==
    [s EXCEPT !.verification_history =
                  Append(@, [timestamp |-> "now", step |-> step,
                             feedback |-> feedback, approved |-> approved,
                             section |-> s.current_section]),
              !.human_verification_required = FALSE,
              !.human_feedback = feedback,
              !.validation_status =
                  [k \in DOMAIN @ \cup {step} |->
                      IF k = step THEN approved ELSE @[k]]]

\* ResearchPaperState.record_verification; the timestamp is the clock's
record_verification(s, step, feedback, approved) ==
    [s EXCEPT !.verification_history =
                  Append(@, [timestamp |-> "now", step |-> step,
                             feedback |-> feedback, approved |-> approved,
                             section |-> s.current_section]),
              !.human_verification_required = FALSE,
              !.human_feedback = feedback,
              !.validation_status =
                  IF step \in DOMAIN @ THEN [@ EXCEPT ![step] = approved]
                  ELSE @]

\* ResearchPaperState.request_verification
request_verification(s, step) ==
    [s EXCEPT !.human_verification_required = TRUE,
              !.verification_step = step]

---------------------------------------------------------------------------
(* The stage functions of graph.py.  Each takes the state and the answers  *)
(* of the backends it calls, and returns the state it hands back.  A stage *)
(* mutates the state object it was given and returns that same object; the *)
(* returned object is the state the next stage sees.                       *)

\* initialize_research that starts at a section name draft_section's
\* section_order does not have
initialize_research_unknown_section(s) ==
    [s EXCEPT !.current_section = "intro",
              !.working_title = "Research on topic"]

\* initialize_research that also clears the progress of the input
initialize_research_resetting(s) ==
    [s EXCEPT !.current_section = "introduction",
              !.working_title = "Research on topic",
              !.completed_sections = <<>>]

initialize_research(s) ==
    [s EXCEPT !.current_section = "introduction",
              !.working_title = "Research on topic"]

thesis_formulation(s, answer) ==
    [s EXCEPT !.thesis_statement = answer]

\* literature_survey without `state.research_loop_count += 1`
literature_survey_uncounted(s, api_key, client_search) ==
    LET search_results == tavily_search(api_key, client_search)
        formatted_sources == deduplicate_and_format_sources(search_results)
    IN  [s EXCEPT !.search_query = "query",
                  !.web_research_results = Append(@, search_results),
                  !.sources_gathered = Append(@, formatted_sources),
                  !.literature_summary = <<"survey">>]

literature_survey(s, api_key, client_search) ==
    LET search_results == tavily_search(api_key, client_search)
        formatted_sources == deduplicate_and_format_sources(search_results)
    IN  [s EXCEPT !.search_query = "query",
                  !.web_research_results = Append(@, search_results),
                  !.sources_gathered = Append(@, formatted_sources),
                  !.literature_summary = <<"survey">>,
                  !.research_loop_count = @ + 1]

\* the state object when the second llm.invoke of literature_survey is made:
\* the stage works on the object it was given, so this is what is left if
\* that call raises
literature_survey_interrupted(s, api_key, client_search) ==
    LET search_results == tavily_search(api_key, client_search)
        formatted_sources == deduplicate_and_format_sources(search_results)
    IN  [s EXCEPT !.search_query = "query",
                  !.web_research_results = Append(@, search_results),
                  !.sources_gathered = Append(@, formatted_sources)]

\* validation_check without `state.validation_passed = validation_passed`
validation_check_flag_unassigned(s, validation_result) ==
    LET validation_passed ==
            /\ Contains(validation_result, "sufficient")
            /\ Contains(validation_result, "comprehensive")
    IN  [s EXCEPT !.validation_result =
                      [result |-> validation_result, passed |-> validation_passed]]

validation_check(s, validation_result) ==
    LET validation_passed ==
            /\ Contains(validation_result, "sufficient")
            /\ Contains(validation_result, "comprehensive")
    IN  [s EXCEPT !.validation_result =
                      [result |-> validation_result, passed |-> validation_passed],
                  !.validation_passed = validation_passed]

\* identify_knowledge_gaps whose except branch leaves an empty dict
identify_knowledge_gaps_no_fallback(s, answer) ==
    [s EXCEPT !.knowledge_gaps =
                  IF answer.json THEN answer.value ELSE JsonObject(<<>>)]

identify_knowledge_gaps(s, answer) ==
    LET gaps == IF answer.json THEN answer.value ELSE FallbackGaps
    IN  [s EXCEPT !.knowledge_gaps = gaps]

\* targeted_research that counts its retrieval as a research loop
targeted_research_counting(s, api_key, client_search) ==
    IF ~PyTruthy(s.knowledge_gaps) THEN s
    ELSE
    LET first_gap_key == Head(s.knowledge_gaps.items).key
        search_results == tavily_search(api_key, client_search)
        formatted_sources == deduplicate_and_format_sources(search_results)
    IN  [s EXCEPT !.web_research_results = Append(@, search_results),
                  !.sources_gathered = Append(@, formatted_sources),
                  !.literature_summary = Append(@, "additional research"),
                  !.research_loop_count = @ + 1,
                  !.knowledge_gaps.items =
                      SelectSeq(@, LAMBDA g : g.key # first_gap_key)]

\* targeted_research that assigns the new digest instead of appending it
targeted_research_overwriting(s, api_key, client_search) ==
    IF ~PyTruthy(s.knowledge_gaps) THEN s
    ELSE
    LET first_gap_key == Head(s.knowledge_gaps.items).key
        search_results == tavily_search(api_key, client_search)
        formatted_sources == deduplicate_and_format_sources(search_results)
    IN  [s EXCEPT !.web_research_results = Append(@, search_results),
                  !.sources_gathered = <<formatted_sources>>,
                  !.literature_summary = Append(@, "additional research"),
                  !.knowledge_gaps.items =
                      SelectSeq(@, LAMBDA g : g.key # first_gap_key)]

\* targeted_research that deletes the last gap instead of the one it addressed
targeted_research_drops_last(s, api_key, client_search) ==
    IF ~PyTruthy(s.knowledge_gaps) THEN s
    ELSE
    LET search_results == tavily_search(api_key, client_search)
        formatted_sources == deduplicate_and_format_sources(search_results)
    IN  [s EXCEPT !.web_research_results = Append(@, search_results),
                  !.sources_gathered = Append(@, formatted_sources),
                  !.literature_summary = Append(@, "additional research"),
                  !.knowledge_gaps.items = SubSeq(@, 1, Len(@) - 1)]

\* targeted_research raises before it has changed anything: AttributeError
\* at knowledge_gaps.keys() when the value is no dict, or at knowledge_gap.get
\* when the first entry is no dict
targeted_research_raises(s) ==
    /\ PyTruthy(s.knowledge_gaps)
    /\ \/ s.knowledge_gaps.type # "object"
       \/ ~Head(s.knowledge_gaps.items).is_dict

\* the state object when the second llm.invoke of targeted_research is made
targeted_research_interrupted(s, api_key, client_search) ==
    LET search_results == tavily_search(api_key, client_search)
        formatted_sources == deduplicate_and_format_sources(search_results)
    IN  [s EXCEPT !.web_research_results = Append(@, search_results),
                  !.sources_gathered = Append(@, formatted_sources)]

targeted_research(s, api_key, client_search) ==
    IF ~PyTruthy(s.knowledge_gaps) THEN s
    ELSE
    LET knowledge_gap == Head(s.knowledge_gaps.items)
        first_gap_key == knowledge_gap.key
        search_results == tavily_search(api_key, client_search)
        formatted_sources == deduplicate_and_format_sources(search_results)
    IN  [s EXCEPT !.web_research_results = Append(@, search_results),
                  !.sources_gathered = Append(@, formatted_sources),
                  !.literature_summary = Append(@, "additional research"),
                  !.knowledge_gaps.items =
                      SelectSeq(@, LAMBDA g : g.key # first_gap_key)]

generate_research_summary(s, answer) ==
    [s EXCEPT !.running_summary = answer]

generate_paper_outline(s, answer) ==
    [s EXCEPT !.outline = answer]

\* draft_section that puts the section at the front of completed_sections
draft_section_prepending(s, section_content) ==
    LET current_section == s.current_section
        current_index == IndexOf(section_order, current_section)
    IN  [s EXCEPT !.sections = [@ EXCEPT ![current_section] = section_content],
                  !.completed_sections =
                      IF current_section \notin Range(@)
                      THEN <<current_section>> \o @ ELSE @,
                  !.current_section =
                      IF current_index < Len(section_order)
                      THEN section_order[current_index + 1]
                      ELSE current_section]

\* draft_section that wraps around to the first section after the last
draft_section_wrapping(s, section_content) ==
    LET current_section == s.current_section
        current_index == IndexOf(section_order, current_section)
    IN  [s EXCEPT !.sections = [@ EXCEPT ![current_section] = section_content],
                  !.completed_sections =
                      IF current_section \notin Range(@)
                      THEN Append(@, current_section) ELSE @,
                  !.current_section =
                      section_order[(current_index % Len(section_order)) + 1]]

\* draft_section that appends to completed_sections without looking
draft_section_reappending(s, section_content) ==
    LET current_section == s.current_section
        current_index == IndexOf(section_order, current_section)
    IN  [s EXCEPT !.sections = [@ EXCEPT ![current_section] = section_content],
                  !.completed_sections = Append(@, current_section),
                  !.current_section =
                      IF current_index < Len(section_order)
                      THEN section_order[current_index + 1]
                      ELSE current_section]

\* draft_section without "Mark section as completed"
draft_section_unmarked(s, section_content) ==
    LET current_section == s.current_section
        current_index == IndexOf(section_order, current_section)
        next_index == current_index + 1
    IN  [s EXCEPT !.sections =
                      [k \in DOMAIN s.sections \cup {current_section} |->
                          IF k = current_section THEN section_content
                          ELSE s.sections[k]],
                  !.current_section =
                      IF current_index = 0 THEN "conclusion"
                      ELSE IF next_index <= Len(section_order)
                           THEN section_order[next_index]
                           ELSE current_section]

draft_section(s, section_content) ==
    LET current_section == s.current_section
        written == [k \in DOMAIN s.sections \cup {current_section} |->
                       IF k = current_section THEN section_content
                       ELSE s.sections[k]]
        completed == IF current_section \notin Range(s.completed_sections)
                     THEN Append(s.completed_sections, current_section)
                     ELSE s.completed_sections
        current_index == IndexOf(section_order, current_section)
        next_index == current_index + 1
        moved == IF current_index = 0 THEN "conclusion"
                 ELSE IF next_index <= Len(section_order)
                      THEN section_order[next_index]
                      ELSE current_section
    IN  [s EXCEPT !.sections = written,
                  !.completed_sections = completed,
                  !.current_section = moved]

completion_check(s) ==
    LET completed_required ==
            \A i \in 1..Len(required_sections) :
                required_sections[i] \in Range(s.completed_sections)
    IN  [s EXCEPT !.all_sections_complete = completed_required]

cross_section_coherence(s, answer) ==
    [s EXCEPT !.coherence_analysis = answer]

citation_formatting(s, formatted_citations) ==
    LET sources == Flatten([i \in 1..Len(s.web_research_results) |->
                               s.web_research_results[i].results])
    IN  [s EXCEPT !.citations = [sources |-> sources,
                                 formatted |-> formatted_citations],
                  !.sections = [@ EXCEPT !["references"] = formatted_citations]]

assemble_final_output(s, answer) ==
    [s EXCEPT !.final_paper = answer]

---------------------------------------------------------------------------
(* The routers, and the edges of build_graph.                              *)

\* route_after_validation with its two answers swapped
route_after_validation_swapped(s) ==
    IF s.validation_passed THEN "targeted_research" ELSE "draft_section"

route_after_validation(s) ==
    IF s.validation_passed THEN "draft_section" ELSE "targeted_research"

\* route_after_completion with its two answers swapped
route_after_completion_swapped(s) ==
    IF s.all_sections_complete THEN "identify_knowledge_gaps"
    ELSE "cross_section_coherence"

route_after_completion(s) ==
    IF s.all_sections_complete THEN "cross_section_coherence"
    ELSE "identify_knowledge_gaps"

\* the router raises TypeError at len() of a truthy value that has none
route_after_knowledge_gaps_raises(s) ==
    PyTruthy(s.knowledge_gaps) /\ ~HasLen(s.knowledge_gaps)

route_after_knowledge_gaps(s) ==
    IF PyTruthy(s.knowledge_gaps) /\ Len(s.knowledge_gaps.items) > 0
    THEN "targeted_research"
    ELSE "generate_research_summary"

\* the failing branch wired back to validation_check itself
validation_edges_retry ==
    [draft_section |-> "draft_section",
     targeted_research |-> "validation_check"]

\* add_conditional_edges: the stage each router answer leads to
validation_edges ==
    [draft_section |-> "draft_section",
     targeted_research |-> "identify_knowledge_gaps"]

knowledge_gaps_edges ==
    [targeted_research |-> "targeted_research",
     generate_research_summary |-> "generate_research_summary"]

\* the unfinished branch wired back to thesis_formulation
completion_edges_restart ==
    [identify_knowledge_gaps |-> "thesis_formulation",
     cross_section_coherence |-> "cross_section_coherence"]

completion_edges ==
    [identify_knowledge_gaps |-> "identify_knowledge_gaps",
     cross_section_coherence |-> "cross_section_coherence"]

\* add_edge: the fixed edges
edges ==
    [START |-> "initialize_research",
     initialize_research |-> "thesis_formulation",
     thesis_formulation |-> "literature_survey",
     literature_survey |-> "validation_check",
     targeted_research |-> "validation_check",
     generate_research_summary |-> "generate_paper_outline",
     generate_paper_outline |-> "draft_section",
     draft_section |-> "completion_check",
     cross_section_coherence |-> "citation_formatting",
     citation_formatting |-> "assemble_final_output",
     assemble_final_output |-> "END"]

---------------------------------------------------------------------------
(* The engine: one action per stage of the graph.                          *)

\* the llm.invoke and tavily_search calls on the path of each stage function
\* that reaches its final `return state`
llm_invocations ==
    [initialize_research |-> 0, thesis_formulation |-> 1,
     literature_survey |-> 2, validation_check |-> 1,
     identify_knowledge_gaps |-> 1, targeted_research |-> 2,
     generate_research_summary |-> 1, generate_paper_outline |-> 1,
     draft_section |-> 1, completion_check |-> 0,
     cross_section_coherence |-> 1, citation_formatting |-> 1,
     assemble_final_output |-> 1]

tavily_searches ==
    [initialize_research |-> 0, thesis_formulation |-> 0,
     literature_survey |-> 1, validation_check |-> 0,
     identify_knowledge_gaps |-> 0, targeted_research |-> 1,
     generate_research_summary |-> 0, generate_paper_outline |-> 0,
     draft_section |-> 0, completion_check |-> 0,
     cross_section_coherence |-> 0, citation_formatting |-> 0,
     assemble_final_output |-> 0]

NoCalls == [generation |-> 0, retrieval |-> 0]

CallsOf(stage) ==
    [generation |-> llm_invocations[stage], retrieval |-> tavily_searches[stage]]

\* no function of utils.py has been called on its own
NoCall == [fn |-> None, args |-> None, result |-> None]

\* nothing has been raised
NoError == [exception |-> None, names_stage |-> FALSE, has_state |-> FALSE]

\* What the caller of graph.invoke gets when a stage or a router raises.  No
\* stage catches what llm.invoke raises and build_graph compiles the graph
\* with no checkpointer and no error handler, so the exception leaves the
\* engine as it was raised: it holds no copy of the state.  Whether the engine
\* notes the name of the node on the exception is up to the installed
\* LangGraph.
Errors(exception) ==
    {[exception |-> exception, names_stage |-> n, has_state |-> FALSE] :
        n \in BOOLEAN}

Init ==
    /\ state \in Inputs
    /\ node = edges["START"]
    /\ last = "START"
    /\ validation_checks = 0
    /\ targeted_runs = 0
    /\ gap_cycles = 0
    /\ gap_answer = NoAnswer
    /\ tavily_api_key \in BOOLEAN
    /\ calls = NoCalls
    /\ surfaced = NoError
    /\ utils_call = NoCall
    /\ record_calls = 0

\* where the engine stands once a stage or a router has raised: the run is
\* over, with the exception surfaced to the caller
Aborted == "ABORTED"

\* the engine runs `stage`, which was given `answer` by gap analysis and has
\* made the calls `made`, takes the state it returns and moves to `next`
Return(stage, answer, returned, next, made) ==
    /\ node = stage
    /\ state' = returned
    /\ node' = next
    /\ last' = stage
    /\ gap_answer' = answer
    /\ calls' = made
    /\ UNCHANGED <<tavily_api_key, surfaced, utils_call, record_calls>>

\* the same for a stage that returns at the end of its function
RunAnswered(stage, answer, returned, next) ==
    Return(stage, answer, returned, next, CallsOf(stage))

\* the same for a stage that asks for no gap analysis
Run(stage, returned, next) == RunAnswered(stage, NoAnswer, returned, next)

\* `stage` (or the router behind it) raises `exception` after the calls `made`
\* and leaves the state object as `left`; the engine runs nothing more
Raise(stage, answer, left, exception, made) ==
    /\ node = stage
    /\ state' = left
    /\ node' = Aborted
    /\ last' = stage
    /\ gap_answer' = answer
    /\ calls' = made
    /\ surfaced' \in Errors(exception)
    /\ UNCHANGED <<tavily_api_key, utils_call, record_calls>>

\* the one llm.invoke of `stage` raises (the generation backend is
\* unreachable): nothing has been assigned yet
GenerationFails(stage) ==
    Raise(stage, NoAnswer, state, "GenerationError",
          [generation |-> 1, retrieval |-> 0])

InitializeResearch ==
    /\ Run("initialize_research", initialize_research(state),
           edges["initialize_research"])
    /\ UNCHANGED <<validation_checks, targeted_runs, gap_cycles>>

ThesisFormulation ==
    /\ \/ Run("thesis_formulation", thesis_formulation(state, Text),
              edges["thesis_formulation"])
       \/ GenerationFails("thesis_formulation")
    /\ UNCHANGED <<validation_checks, targeted_runs, gap_cycles>>

LiteratureSurvey ==
    /\ \/ \E client_search \in ClientSearches :
             \/ Run("literature_survey",
                    literature_survey(state, tavily_api_key, client_search),
                    edges["literature_survey"])
             \/ Raise("literature_survey", NoAnswer,
                      literature_survey_interrupted(state, tavily_api_key,
                                                    client_search),
                      "GenerationError", [generation |-> 2, retrieval |-> 1])
       \/ GenerationFails("literature_survey")
    /\ UNCHANGED <<validation_checks, targeted_runs, gap_cycles>>

ValidationCheck ==
    /\ \/ \E answer \in ValidationResponses :
             LET returned == validation_check(state, answer) IN
             Run("validation_check", returned,
                 validation_edges[route_after_validation(returned)])
       \/ GenerationFails("validation_check")
    /\ validation_checks' = validation_checks + 1
    /\ UNCHANGED <<targeted_runs, gap_cycles>>

IdentifyKnowledgeGaps ==
    /\ \/ \E answer \in GapAnswers(state) :
             LET returned == identify_knowledge_gaps(state, answer) IN
             IF route_after_knowledge_gaps_raises(returned)
             THEN Raise("identify_knowledge_gaps", answer, returned,
                        "TypeError", CallsOf("identify_knowledge_gaps"))
             ELSE RunAnswered("identify_knowledge_gaps", answer, returned,
                      knowledge_gaps_edges[route_after_knowledge_gaps(returned)])
       \/ GenerationFails("identify_knowledge_gaps")
    /\ UNCHANGED <<validation_checks, targeted_runs, gap_cycles>>

\* targeted_runs counts executions of the stage, its no-op return included
TargetedResearch ==
    /\ IF targeted_research_raises(state)
       THEN Raise("targeted_research", NoAnswer, state, "AttributeError",
                  NoCalls)
       ELSE IF ~PyTruthy(state.knowledge_gaps)
       THEN Return("targeted_research", NoAnswer, state,
                   edges["targeted_research"], NoCalls)
       ELSE \/ \E client_search \in ClientSearches :
                  \/ Run("targeted_research",
                         targeted_research(state, tavily_api_key, client_search),
                         edges["targeted_research"])
                  \/ Raise("targeted_research", NoAnswer,
                           targeted_research_interrupted(state, tavily_api_key,
                                                         client_search),
                           "GenerationError",
                           [generation |-> 2, retrieval |-> 1])
            \/ GenerationFails("targeted_research")
    /\ targeted_runs' = targeted_runs + 1
    /\ UNCHANGED <<validation_checks, gap_cycles>>

GenerateResearchSummary ==
    /\ \/ Run("generate_research_summary",
              generate_research_summary(state, Text),
              edges["generate_research_summary"])
       \/ GenerationFails("generate_research_summary")
    /\ UNCHANGED <<validation_checks, targeted_runs, gap_cycles>>

GeneratePaperOutline ==
    /\ \/ Run("generate_paper_outline", generate_paper_outline(state, Text),
              edges["generate_paper_outline"])
       \/ GenerationFails("generate_paper_outline")
    /\ UNCHANGED <<validation_checks, targeted_runs, gap_cycles>>

DraftSection ==
    /\ \/ \E answer \in DraftAnswers(state) :
             Run("draft_section", draft_section(state, answer),
                 edges["draft_section"])
       \/ GenerationFails("draft_section")
    /\ validation_checks' = 0
    /\ targeted_runs' = 0
    /\ UNCHANGED gap_cycles

CompletionCheck ==
    LET returned == completion_check(state)
        next == completion_edges[route_after_completion(returned)]
    IN  /\ Run("completion_check", returned, next)
        /\ gap_cycles' = IF next = "identify_knowledge_gaps"
                         THEN Min(gap_cycles + 1, MaxGapCycles)
                         ELSE gap_cycles
        /\ UNCHANGED <<validation_checks, targeted_runs>>

CrossSectionCoherence ==
    /\ \/ Run("cross_section_coherence", cross_section_coherence(state, Text),
              edges["cross_section_coherence"])
       \/ GenerationFails("cross_section_coherence")
    /\ UNCHANGED <<validation_checks, targeted_runs, gap_cycles>>

CitationFormatting ==
    /\ \/ \E answer \in {Text, Blank} :
             Run("citation_formatting", citation_formatting(state, answer),
                 edges["citation_formatting"])
       \/ GenerationFails("citation_formatting")
    /\ UNCHANGED <<validation_checks, targeted_runs, gap_cycles>>

AssembleFinalOutput ==
    /\ \/ \E answer \in {Text, Blank} :
             Run("assemble_final_output", assemble_final_output(state, answer),
                 edges["assemble_final_output"])
       \/ GenerationFails("assemble_final_output")
    /\ UNCHANGED <<validation_checks, targeted_runs, gap_cycles>>

Next ==
    \/ InitializeResearch
    \/ ThesisFormulation
    \/ LiteratureSurvey
    \/ ValidationCheck
    \/ IdentifyKnowledgeGaps
    \/ TargetedResearch
    \/ GenerateResearchSummary
    \/ GeneratePaperOutline
    \/ DraftSection
    \/ CompletionCheck
    \/ CrossSectionCoherence
    \/ CitationFormatting
    \/ AssembleFinalOutput

Spec == Init /\ [][Next]_vars

\* The engine is synchronous: when a stage has returned it runs the next one.
FairSpec == Spec /\ WF_vars(Next)

---------------------------------------------------------------------------
(* The functions of utils.py, called on their own: a behaviour is one call *)
(* with arguments the caller draws.                                        *)

\* 'results' lists of up to MaxResults records
ResultLists ==
    UNION {[1..n -> {SourceA, SourceB, SourceC}] : n \in 0..MaxResults}

\* lists of up to MaxResponses response dicts
ResponseLists ==
    UNION {[1..n -> {[results |-> r] : r \in ResultLists}] : n \in 0..MaxResponses}

\* raw_content values: missing, None, and texts of up to MaxRawContent
\* characters
RawContents ==
    {MissingRawContent, NoneRawContent} \cup
    {RawContent(Chars(n, c)) : n \in 0..MaxRawContent, c \in {"a", "."}}

TokenLimits == 0..MaxTokensPerSource

\* source dicts: title and url, with or without the optional keys
OptionalFields ==
    [author : {None, "A. Author"},
     published_date : {None, "", "2020"},
     citation_number : {None, "7"}]

SourceDict(optional) ==
    LET keys == {"title", "url"} \cup
                {k \in {"author", "published_date", "citation_number"} :
                    optional[k] # None}
    IN  [k \in keys |-> IF k = "title" THEN "T"
                        ELSE IF k = "url" THEN "U"
                        ELSE optional[k]]

CitationStyles == {"APA", "apa", "MLA", "Chicago", "IEEE", "Harvard"}

UtilsInit ==
    /\ state = TopicOnlyInput
    /\ node = edges["START"]
    /\ last = "START"
    /\ validation_checks = 0
    /\ targeted_runs = 0
    /\ gap_cycles = 0
    /\ gap_answer = NoAnswer
    /\ tavily_api_key = FALSE
    /\ calls = NoCalls
    /\ surfaced = NoError
    /\ utils_call = NoCall
    /\ record_calls = 0

Workflow ==
    <<state, node, last, validation_checks, targeted_runs, gap_cycles,
      gap_answer, tavily_api_key, calls, surfaced, record_calls>>

DeduplicateSources ==
    /\ utils_call.fn = None
    /\ \E search_responses \in ResponseLists :
          utils_call' =
              [fn |-> "deduplicate_and_format_sources",
               args |-> search_responses,
               result |-> UniqueFrom(sources_list_of(search_responses), <<>>)]
    /\ UNCHANGED Workflow

LimitRawContent ==
    /\ utils_call.fn = None
    /\ \E raw \in RawContents, max_tokens_per_source \in TokenLimits :
          utils_call' =
              [fn |-> "raw_content_limited",
               args |-> [raw |-> raw,
                         max_tokens_per_source |-> max_tokens_per_source],
               result |-> raw_content_limited(raw, max_tokens_per_source)]
    /\ UNCHANGED Workflow

FormatCitation ==
    /\ utils_call.fn = None
    /\ \E optional \in OptionalFields, citation_style \in CitationStyles :
          utils_call' =
              [fn |-> "format_citation",
               args |-> [source |-> SourceDict(optional),
                         citation_style |-> citation_style],
               result |-> format_citation(SourceDict(optional), citation_style)]
    /\ UNCHANGED Workflow

\* os.environ: some of the two variables set, to a text
EnvironValues == {"", "0", "5"}

Environs ==
    UNION {[names -> EnvironValues] :
              names \in SUBSET {Upper(name) : name \in ConfigurationFields}}

\* values a caller puts under config['configurable']
ConfigurableValues ==
    {PyNone, PyInt(0), PyInt(5), PyStr(""), PyStr("MLA"), PyBool(FALSE)}

RunnableConfigs ==
    {NoneConfig, PlainConfig} \cup
    {ConfigurableConfig(configurable) :
        configurable \in UNION {[names -> ConfigurableValues] :
                                   names \in SUBSET ConfigurationFields}}

FromRunnableConfig ==
    /\ utils_call.fn = None
    /\ \E environ \in Environs, config \in RunnableConfigs :
          utils_call' =
              [fn |-> "from_runnable_config",
               args |-> [environ |-> environ, config |-> config],
               result |-> from_runnable_config(environ, config)]
    /\ UNCHANGED Workflow

UtilsNext ==
    \/ DeduplicateSources
    \/ LimitRawContent
    \/ FormatCitation
    \/ FromRunnableConfig

UtilsSpec == UtilsInit /\ [][UtilsNext]_vars

---------------------------------------------------------------------------
(* The verification methods of ResearchPaperState, called by a reviewer's  *)
(* front end in any order on one state.                                    *)

\* step names a caller passes: two keys of validation_status and another
VerificationSteps == {"sources_verified", "outline_approved", "thesis_review"}

VerificationInit ==
    /\ state \in Inputs
    /\ node = edges["START"]
    /\ last = "START"
    /\ validation_checks = 0
    /\ targeted_runs = 0
    /\ gap_cycles = 0
    /\ gap_answer = NoAnswer
    /\ tavily_api_key = FALSE
    /\ calls = NoCalls
    /\ surfaced = NoError
    /\ utils_call = NoCall
    /\ record_calls = 0

RequestVerification ==
    /\ \E step \in VerificationSteps :
          state' = request_verification(state, step)
    /\ last' = "request_verification"
    /\ UNCHANGED <<node, validation_checks, targeted_runs, gap_cycles,
                   gap_answer, tavily_api_key, calls, surfaced, utils_call,
                   record_calls>>

RecordVerification ==
    /\ record_calls < MaxVerifications
    /\ \E step \in VerificationSteps, approved \in BOOLEAN :
          state' = record_verification(state, step, "feedback", approved)
    /\ last' = "record_verification"
    /\ record_calls' = record_calls + 1
    /\ UNCHANGED <<node, validation_checks, targeted_runs, gap_cycles,
                   gap_answer, tavily_api_key, calls, surfaced, utils_call>>

VerificationNext ==
    \/ RequestVerification
    \/ RecordVerification

VerificationSpec == VerificationInit /\ [][VerificationNext]_vars

---------------------------------------------------------------------------
(* Properties.                                                             *)

\* no draft_section has run yet: drafting starts with the introduction
NoDraftYet == state.sections["introduction"] = None

RequiredSet == Range(required_sections)

\* the largest of the limits Configuration holds
LargestConfiguredLimit ==
    SetMax({max_web_research_loops, max_section_revisions,
            max_targeted_research_attempts, knowledge_gap_threshold})

\* C1: within one pass through the validation loop validation_check is invoked
\* at most max_targeted_research_attempts + 1 times, whatever the backend says.
C1_ValidationChecksBounded ==
    validation_checks <= max_targeted_research_attempts + 1

\* C2: a run started from the topic alone reaches END, with final_paper set by
\* assemble_final_output, after finitely many stage executions, unless a stage
\* raises and the run aborts.
C2_TopicOnlyRunReachesEnd ==
    (state = TopicOnlyInput) =>
        <>((node = "END" /\ state.final_paper # None) \/ node = Aborted)

\* C3: once the attempt cap is exhausted (max_targeted_research_attempts
\* targeted_research passes made and validation still failing) the engine
\* proceeds to draft_section.
C3_CapExhaustedProceedsToDraft ==
    (/\ last = "validation_check"
     /\ node # Aborted
     /\ ~state.validation_passed
     /\ targeted_runs >= max_targeted_research_attempts)
        => node = "draft_section"

\* C4: the number of times completion_check routes back to
\* identify_knowledge_gaps never exceeds a configured maximum, and the loop is
\* left as soon as every required section is in completed_sections.
C4_GapCyclesBounded ==
    /\ gap_cycles <= LargestConfiguredLimit
    /\ (last = "completion_check"
        /\ RequiredSet \subseteq Range(state.completed_sections))
           => node = "cross_section_coherence"

\* C5: if validation_check reports insufficiency on its first
\* max_targeted_research_attempts invocations and sufficiency on the next, then
\* targeted_research has run exactly max_targeted_research_attempts times when
\* draft_section is first due.
C5_ExactlyNTargetedBeforeFirstDraft ==
    (/\ node = "draft_section"
     /\ last = "validation_check"
     /\ NoDraftYet
     /\ validation_checks = max_targeted_research_attempts + 1)
        => targeted_runs = max_targeted_research_attempts

C5_Witness ==
    /\ node = "draft_section"
    /\ last = "validation_check"
    /\ NoDraftYet
    /\ state.validation_passed
    /\ validation_checks = max_targeted_research_attempts + 1
    /\ targeted_runs = max_targeted_research_attempts

\* C6: after completion_check, all_sections_complete is true exactly when every
\* required section has non-empty content in sections.
C6_CompleteIffRequiredContent ==
    last = "completion_check" =>
        (state.all_sections_complete <=>
            \A name \in RequiredSet : Truthy(state.sections[name]))

\* C7: every section whose content is non-empty is in completed_sections.
C7_ContentImpliesCompleted ==
    \A name \in DOMAIN state.sections :
        Truthy(state.sections[name]) => name \in Range(state.completed_sections)

C7_Witness ==
    /\ last = "citation_formatting"
    /\ Truthy(state.sections["references"])
    /\ Truthy(state.sections["introduction"])
    /\ "references" \in Range(state.completed_sections)

\* C8: every name in completed_sections has non-empty content in sections.
C8_CompletedImpliesContent ==
    \A i \in 1..Len(state.completed_sections) :
        Truthy(state.sections[state.completed_sections[i]])

\* the source records sources_gathered holds, over all its digests
GatheredSources == Flatten(state.sources_gathered)

\* C9: sources_gathered holds at most one record per distinct URL.
C9_OneRecordPerUrl ==
    \A i, j \in 1..Len(GatheredSources) :
        i # j => GatheredSources[i].url # GatheredSources[j].url

\* C10: right after a validation_check that returned the engine selects draft_section if
\* validation_passed and otherwise gap analysis, the only way into
\* targeted_research.
C10_RouteAfterValidation ==
    /\ (last = "validation_check" /\ node # Aborted) =>
          node = IF state.validation_passed THEN "draft_section"
                 ELSE "identify_knowledge_gaps"
    /\ node = "targeted_research" => last = "identify_knowledge_gaps"

C10_Witness ==
    /\ last = "validation_check"
    /\ ~state.validation_passed
    /\ node = "identify_knowledge_gaps"
    /\ validation_checks > 1

\* C11: right after identify_knowledge_gaps the engine selects
\* targeted_research if knowledge_gaps is non-empty and generate_research_summary
\* otherwise, which is followed by generate_paper_outline and draft_section.
C11_RouteAfterKnowledgeGaps ==
    /\ (last = "identify_knowledge_gaps" /\ gap_answer \in GapAnswersAll) =>
          node = IF PyTruthy(state.knowledge_gaps) THEN "targeted_research"
                 ELSE "generate_research_summary"
    /\ last = "generate_research_summary" => node = "generate_paper_outline"
    /\ last = "generate_paper_outline" => node = "draft_section"

\* C12: END is reached only through cross_section_coherence,
\* citation_formatting and assemble_final_output in that order, and
\* cross_section_coherence only after a completion_check that found every
\* required section completed; so at END all required sections are completed
\* and final_paper is set.
C12_EndOnlyThroughFinalStages ==
    /\ node = "cross_section_coherence" =>
          /\ last = "completion_check"
          /\ state.all_sections_complete
          /\ RequiredSet \subseteq Range(state.completed_sections)
    /\ node = "citation_formatting" => last = "cross_section_coherence"
    /\ node = "assemble_final_output" => last = "citation_formatting"
    /\ node = "END" =>
          /\ last = "assemble_final_output"
          /\ RequiredSet \subseteq Range(state.completed_sections)
          /\ state.coherence_analysis # None
          /\ state.citations.formatted # None
          /\ state.final_paper # None

C12_Witness ==
    /\ node = "END"
    /\ last = "assemble_final_output"
    /\ RequiredSet \subseteq Range(state.completed_sections)
    /\ state.final_paper = Text

\* C13: when the answer to identify_knowledge_gaps is not valid JSON,
\* knowledge_gaps afterwards is exactly the one synthetic fallback entry, the
\* next stage is targeted_research, and that stage will not raise on it.
C13_InvalidJsonFallsBack ==
    (last = "identify_knowledge_gaps" /\ gap_answer \in GapAnswersAll
     /\ ~gap_answer.json) =>
        /\ state.knowledge_gaps = FallbackGaps
        /\ Len(state.knowledge_gaps.items) = 1
        /\ node = "targeted_research"
        /\ ~targeted_research_raises(state)

C13_Witness ==
    /\ last = "identify_knowledge_gaps"
    /\ gap_answer \in GapAnswersAll
    /\ ~gap_answer.json
    /\ state.knowledge_gaps = FallbackGaps
    /\ node = "targeted_research"
    /\ gap_cycles > 0

\* C14: whatever the generation backend answers to identify_knowledge_gaps,
\* neither that stage, nor the router after it, nor the targeted_research that
\* follows raises: the run is not aborted.
C14_MalformedAnswerNeverAborts ==
    (last \in {"identify_knowledge_gaps", "targeted_research"}
     /\ surfaced.exception # "GenerationError") => node # Aborted

\* whether a verdict text asserts sufficiency: it says "sufficient", and not
\* as part of "insufficient"
AssertsSufficiency(text) ==
    "sufficient" \in Range(text) /\ "insufficient" \notin Range(text)

\* C15: validation_check is fail-closed: a verdict it was given that does not assert
\* sufficiency leaves validation_passed false and the engine on the research
\* path.
C15_ValidationFailClosed ==
    (last = "validation_check" /\ node # Aborted
     /\ ~AssertsSufficiency(state.validation_result.result))
        => (~state.validation_passed /\ node = "identify_knowledge_gaps")

\* C16: without an API key, and when the search call fails, the retrieval port
\* returns an empty result set, so the retrieval stages append no source record.
C16_UnavailablePortGivesNoSources ==
    ~tavily_api_key =>
          /\ \A i \in 1..Len(state.web_research_results) :
                state.web_research_results[i].results = <<>>
          /\ Flatten(state.sources_gathered) = <<>>

\* C17: a targeted_research that returns removes exactly the first-inserted gap
\* and keeps the other entries and their order; on an empty knowledge_gaps it
\* returns the state unchanged; so knowledge_gaps never grows across it.
C17_TargetedResearchRemovesFirstGap ==
    [][(node = "targeted_research" /\ node' # Aborted) =>
          LET gaps == state.knowledge_gaps.items
              left == state'.knowledge_gaps.items
          IN  /\ gaps # <<>> =>
                    /\ left = Tail(gaps)
                    /\ \A i \in 1..Len(left) : left[i].key # Head(gaps).key
                    /\ state'.knowledge_gaps.type = state.knowledge_gaps.type
                    /\ Len(state'.web_research_results) =
                           Len(state.web_research_results) + 1
              /\ gaps = <<>> => state' = state
              /\ Len(left) <= Len(gaps)
              /\ \A client_search \in ClientSearches :
                    LET s == [state' EXCEPT !.knowledge_gaps.items = <<>>]
                    IN  targeted_research(s, tavily_api_key, client_search) = s
      ]_vars

C17_Witness ==
    /\ last = "targeted_research"
    /\ node = "validation_check"
    /\ state.knowledge_gaps = JsonObject(<<Gap("gap_2", "d2")>>)

\* C18: after initialize_research the current section is the first of the
\* section order, so drafting starts there and covers every section.
C18_InitializeStartsAtFirstSection ==
    last = "initialize_research" => state.current_section = section_order[1]

SectionIndex(s) == IndexOf(section_order, s.current_section)

\* C19: the position of current_section in the section order never decreases:
\* a draft_section that returns moves it forward by exactly one (or leaves it at the last
\* position) and no other stage after initialize_research changes it.
C19_CurrentSectionOnlyAdvances ==
    [][/\ SectionIndex(state') >= SectionIndex(state)
       /\ SectionIndex(state) >= 1
       /\ (node = "draft_section" /\ node' # Aborted) =>
             SectionIndex(state') =
                 Min(SectionIndex(state) + 1, Len(section_order))
       /\ node \notin {"draft_section", "initialize_research"} =>
             state'.current_section = state.current_section
      ]_vars

C19_Witness ==
    /\ last = "draft_section"
    /\ node = "completion_check"
    /\ state.current_section = "references"
    /\ "conclusion" \in Range(state.completed_sections)
    /\ "references" \notin Range(state.completed_sections)

NoDuplicates(seq) ==
    \A i, j \in 1..Len(seq) : i # j => seq[i] # seq[j]

\* C20: a draft_section that returns on the last section (references) leaves current_section
\* where it is, however often it is repeated, and adds no duplicate to
\* completed_sections.
C20_DraftAtLastSectionClamped ==
    [][(node = "draft_section" /\ state.current_section = "references"
        /\ node' # Aborted) =>
          /\ state'.current_section = "references"
          /\ NoDuplicates(state'.completed_sections)
          /\ "references" \in Range(state'.completed_sections)
          /\ "references" \in Range(state.completed_sections) =>
                state'.completed_sections = state.completed_sections
      ]_vars

\* a second draft of references has just run (seven drafts bring a run that
\* started at the introduction to the first one)
C20_Witness ==
    /\ last = "draft_section"
    /\ node = "completion_check"
    /\ state.current_section = "references"
    /\ "abstract" \notin Range(state.completed_sections)
    /\ gap_cycles = Len(section_order) - 1
    /\ NoDuplicates(state.completed_sections)

\* C21: the key set of sections is the eight fixed section names in every
\* state of a run; after initialize_research the current section is one of
\* them, so draft_section never takes its branch for an unknown section.
C21_SectionKeysFixed ==
    /\ DOMAIN state.sections = Range(section_order)
    /\ last # "START" => state.current_section \in Range(section_order)
    /\ node = "draft_section" =>
          IndexOf(section_order, state.current_section) # 0

C21_Witness ==
    /\ last = "citation_formatting"
    /\ node = "assemble_final_output"
    /\ state.sections["references"] # None
    /\ state.sections["methodology"] # None
    /\ DOMAIN state.sections = Range(section_order)

\* C22: when a generation call fails inside a stage the run is aborted and the
\* error surfaced to the caller carries the name of the failing stage and the
\* state as it was at failure time.
C22_GenerationFailureSurfaced ==
    surfaced.exception = "GenerationError" =>
        /\ node = Aborted
        /\ surfaced.names_stage
        /\ surfaced.has_state

\* the fields of a state other than `fields` are the same in s and t
SameExcept(s, t, fields) ==
    /\ DOMAIN t = DOMAIN s
    /\ \A f \in DOMAIN s \ fields : t[f] = s[f]

\* C23: initialize_research changes only current_section and working_title,
\* thesis_formulation only thesis_statement, validation_check only
\* validation_result and validation_passed, identify_knowledge_gaps only
\* knowledge_gaps, completion_check only all_sections_complete,
\* assemble_final_output only final_paper; the routers behind them change
\* nothing: the state after the step is the state the stage returned.
C23_StagesChangeOnlyTheirFields ==
    [][/\ node = "initialize_research" =>
             SameExcept(state, state', {"current_section", "working_title"})
       /\ node = "thesis_formulation" =>
             SameExcept(state, state', {"thesis_statement"})
       /\ node = "validation_check" =>
             /\ SameExcept(state, state',
                           {"validation_result", "validation_passed"})
             /\ node' # Aborted =>
                   \E answer \in ValidationResponses :
                       state' = validation_check(state, answer)
       /\ node = "identify_knowledge_gaps" =>
             /\ SameExcept(state, state', {"knowledge_gaps"})
             /\ gap_answer' \in GapAnswersAll =>
                   state' = identify_knowledge_gaps(state, gap_answer')
       /\ node = "completion_check" =>
             /\ SameExcept(state, state', {"all_sections_complete"})
             /\ state' = completion_check(state)
       /\ node = "assemble_final_output" =>
             SameExcept(state, state', {"final_paper"})
      ]_vars

C23_Witness ==
    /\ last = "completion_check"
    /\ state.all_sections_complete
    /\ state.completed_sections # <<>>
    /\ state.validation_passed
    /\ state.thesis_statement = Text
    /\ node = "cross_section_coherence"

\* C24: research_topic is never assigned; working_title changes only in
\* initialize_research and thesis_statement only in thesis_formulation, and
\* these run once, first and second: no step leads back to either.
C24_TopicTitleThesisSetOnce ==
    [][/\ state'.research_topic = state.research_topic
       /\ state'.working_title # state.working_title =>
             (node = "initialize_research" /\ last = "START")
       /\ state'.thesis_statement # state.thesis_statement =>
             (node = "thesis_formulation" /\ last = "initialize_research")
       /\ node' = "thesis_formulation" => node = "initialize_research"
       /\ node' = "initialize_research" => node = "initialize_research"
      ]_vars

C24_Witness ==
    /\ node = "END"
    /\ gap_cycles > 1
    /\ state.research_topic = "topic"
    /\ state.working_title = "Research on topic"
    /\ state.thesis_statement = Text

IsPrefix(a, b) == Len(a) <= Len(b) /\ SubSeq(b, 1, Len(a)) = a

C26_LiteratureSurveyEffect ==
    [][(node = "literature_survey" /\ node' # Aborted) =>
          LET payloads == state'.web_research_results
              digests == state'.sources_gathered
          IN  /\ calls' = [generation |-> 2, retrieval |-> 1]
              /\ Len(payloads) = Len(state.web_research_results) + 1
              /\ IsPrefix(state.web_research_results, payloads)
              /\ Len(digests) = Len(state.sources_gathered) + 1
              /\ IsPrefix(state.sources_gathered, digests)
              /\ digests[Len(digests)] =
                     UniqueFrom(payloads[Len(payloads)].results, <<>>)
              /\ state'.literature_summary = <<"survey">>
              /\ state'.research_loop_count = state.research_loop_count + 1
      ]_vars

C26_Witness ==
    /\ last = "literature_survey"
    /\ node = "validation_check"
    /\ state.research_loop_count = 1
    /\ Len(state.web_research_results[1].results) = 3
    /\ Len(state.sources_gathered[1]) = 2

\* the position of the first source with this URL
FirstWithUrl(sources_list, url) ==
    CHOOSE i \in 1..Len(sources_list) :
        /\ sources_list[i].url = url
        /\ \A j \in 1..(i - 1) : sources_list[j].url # url

\* C27: for every list of responses the deduplicated sources have no URL
\* twice, hold for every URL of the input its first occurrence, in the order
\* of these first occurrences, and deduplicating them again changes nothing.
C27_DedupFirstSeenIdempotent ==
    utils_call.fn = "deduplicate_and_format_sources" =>
        LET sources_list == sources_list_of(utils_call.args)
            unique_sources == utils_call.result
        IN  /\ \A i, j \in 1..Len(unique_sources) :
                  i # j => unique_sources[i].url # unique_sources[j].url
            /\ {unique_sources[i].url : i \in 1..Len(unique_sources)} =
                   {sources_list[i].url : i \in 1..Len(sources_list)}
            /\ \A i \in 1..Len(unique_sources) :
                  unique_sources[i] =
                      sources_list[FirstWithUrl(sources_list,
                                                unique_sources[i].url)]
            /\ \A i, j \in 1..Len(unique_sources) :
                  i < j =>
                      FirstWithUrl(sources_list, unique_sources[i].url) <
                      FirstWithUrl(sources_list, unique_sources[j].url)
            /\ UniqueFrom(unique_sources, <<>>) = unique_sources

C27_Witness ==
    /\ utils_call.fn = "deduplicate_and_format_sources"
    /\ Len(utils_call.args) = 2
    /\ sources_list_of(utils_call.args) =
           <<SourceB, SourceC, SourceA, SourceC>>
    /\ utils_call.result = <<SourceB, SourceC>>

\* C28 as stated: a raw_content longer than 4 * max_tokens_per_source
\* characters is cut to that many characters and "...[truncated]" is put
\* behind; a shorter, missing or None one is emitted as it is.
C28_CutWithMarker ==
    utils_call.fn = "raw_content_limited" =>
        LET raw == utils_call.args.raw
            text == IF ~raw.given \/ raw.is_none THEN <<>> ELSE raw.text
            cap == 4 * utils_call.args.max_tokens_per_source
            marker == <<".", ".", ".", "[", "t", "r", "u", "n", "c", "a", "t",
                        "e", "d", "]">>
        IN  utils_call.result =
                IF Len(text) > cap THEN SubSeq(text, 1, cap) \o marker
                ELSE text

\* C28 amended: the same with the marker "... [truncated]".
C28_CutWithSpacedMarker ==
    utils_call.fn = "raw_content_limited" =>
        LET raw == utils_call.args.raw
            text == IF ~raw.given \/ raw.is_none THEN <<>> ELSE raw.text
            cap == 4 * utils_call.args.max_tokens_per_source
        IN  utils_call.result =
                IF Len(text) > cap
                THEN SubSeq(text, 1, cap) \o truncated_marker
                ELSE text

C28_Witness ==
    /\ utils_call.fn = "raw_content_limited"
    /\ utils_call.args.max_tokens_per_source = 1
    /\ utils_call.args.raw = RawContent(Chars(5, "a"))
    /\ utils_call.result = Chars(4, "a") \o truncated_marker

\* a source dict that has only title and url
OnlyTitleAndUrl(source) == DOMAIN source = {"title", "url"}

FourStyles == {"APA", "MLA", "CHICAGO", "IEEE"}

\* C29 as stated: in each of the four styles a source with only title and url
\* gives a non-empty citation that contains "No author" and "n.d.".
C29_FallbackMarkersInEveryStyle ==
    (/\ utils_call.fn = "format_citation"
     /\ OnlyTitleAndUrl(utils_call.args.source)
     /\ Upper(utils_call.args.citation_style) \in FourStyles)
        => /\ utils_call.result # <<>>
           /\ "No author" \in Range(utils_call.result)
           /\ "n.d." \in Range(utils_call.result)

\* C29 amended: in each of the four styles such a source gives a non-empty
\* citation that contains "No author"; it contains "n.d." in the APA and IEEE
\* styles, whose templates have a date, and not in MLA and Chicago.
C29_FallbackMarkersWhereTemplateHasThem ==
    (/\ utils_call.fn = "format_citation"
     /\ OnlyTitleAndUrl(utils_call.args.source)
     /\ Upper(utils_call.args.citation_style) \in FourStyles)
        => /\ utils_call.result # <<>>
           /\ "No author" \in Range(utils_call.result)
           /\ "n.d." \in Range(utils_call.result) <=>
                  Upper(utils_call.args.citation_style) \in {"APA", "IEEE"}

C29_Witness ==
    /\ utils_call.fn = "format_citation"
    /\ utils_call.args.citation_style = "MLA"
    /\ OnlyTitleAndUrl(utils_call.args.source)
    /\ "No author" \in Range(utils_call.result)
    /\ "n.d." \notin Range(utils_call.result)

\* C30: citation_formatting writes sections['references'], and an answer that
\* cannot be parsed as citations (an empty one, say) is replaced by the
\* per-source formatter's output, so that citations.formatted is not empty
\* when there are sources.
C30_CitationFallback ==
    (last = "citation_formatting" /\ node # Aborted) =>
        /\ state.sections["references"] = state.citations.formatted
        /\ state.citations.sources # <<>> => state.citations.formatted # Blank

\* the sections that have content
NonEmptySections(s) == {name \in DOMAIN s.sections : Truthy(s.sections[name])}

\* C31: a cross_section_coherence that returns has made one generation call
\* per non-empty section and has stored a coherence report.
C31_CoherenceCallsPerSection ==
    (last = "cross_section_coherence" /\ node # Aborted) =>
        /\ calls.generation = Cardinality(NonEmptySections(state))
        /\ calls.generation <= Len(section_order)
        /\ state.coherence_analysis # None

\* C32: whenever draft_section is due, generate_research_summary and
\* generate_paper_outline have run: the research summary and the outline it
\* reads are there.
C32_OutlineBeforeDraft ==
    node = "draft_section" =>
        /\ state.running_summary # None
        /\ state.outline # None

\* C33: targeted_research is entered only from identify_knowledge_gaps and
\* only with a non-empty knowledge_gaps, and every execution of it (the
\* generation backend answering) performs one retrieval and goes on to
\* validation_check with one gap less.
C33_TargetedResearchAlwaysResearches ==
    /\ node = "targeted_research" =>
          /\ last = "identify_knowledge_gaps"
          /\ PyTruthy(state.knowledge_gaps)
    /\ (last = "targeted_research" /\ surfaced.exception # "GenerationError") =>
          /\ calls.retrieval = 1
          /\ node = "validation_check"

\* the completed sections a state starts a run with: the abstract of a resumed
\* paper, or none
InputCompleted(s) ==
    IF s.completed_sections # <<>> /\ Head(s.completed_sections) = "abstract"
    THEN <<"abstract">> ELSE <<>>

\* C34: completed_sections has no name twice, and what the run has added to
\* it is the section order from the introduction (where initialize_research
\* points) on, without a gap; a draft_section that returns adds one name, or
\* none once the last section is completed.
C34_CompletedSectionsInOrder ==
    [][/\ NoDuplicates(state'.completed_sections)
       /\ \E n \in 0..(Len(section_order) - 1) :
             state'.completed_sections =
                 InputCompleted(state') \o SubSeq(section_order, 2, n + 1)
       /\ (node = "draft_section" /\ node' # Aborted) =>
             Len(state'.completed_sections) =
                 IF state.current_section \in Range(state.completed_sections)
                 THEN Len(state.completed_sections)
                 ELSE Len(state.completed_sections) + 1
       /\ node # "draft_section" =>
             state'.completed_sections = state.completed_sections
      ]_vars

C34_Witness ==
    /\ last = "draft_section"
    /\ node = "completion_check"
    /\ state.completed_sections =
           <<"introduction", "literature_review", "methodology">>
    /\ state.current_section = "results"

\* C35: before the first validation_check has returned validation_result is
\* empty and validation_passed false; afterwards validation_passed equals
\* validation_result['passed'], and both are those of the most recent
\* validation_check: each one replaces them, no other stage touches them.
C35_ValidationResultIsLatest ==
    [][/\ IF DOMAIN state'.validation_result = {}
          THEN ~state'.validation_passed
          ELSE state'.validation_passed = state'.validation_result.passed
       /\ (node = "validation_check" /\ node' # Aborted) =>
             \E answer \in ValidationResponses :
                 /\ state'.validation_result =
                        [result |-> answer,
                         passed |-> (answer = <<"sufficient", "comprehensive">>
                                     \/ answer = <<"insufficient", "comprehensive">>)]
                 /\ node' = IF state'.validation_result.passed
                            THEN "draft_section" ELSE "identify_knowledge_gaps"
       /\ (node # "validation_check" \/ node' = Aborted) =>
             /\ state'.validation_result = state.validation_result
             /\ state'.validation_passed = state.validation_passed
      ]_vars

C35_Witness ==
    /\ last = "validation_check"
    /\ node = "identify_knowledge_gaps"
    /\ targeted_runs > 0
    /\ state.validation_result = [result |-> <<"insufficient">>, passed |-> FALSE]
    /\ ~state.validation_passed

\* C36: research_loop_count is 0 until literature_survey has returned and 1
\* ever after: literature_survey is entered once, from thesis_formulation, and
\* no other stage changes the counter.
C36_ResearchLoopCountIsOne ==
    [][/\ state'.research_loop_count =
             IF \/ last' \in {"START", "initialize_research", "thesis_formulation"}
                \/ (last' = "literature_survey" /\ node' = Aborted)
             THEN 0 ELSE 1
       /\ node' = "literature_survey" =>
             node \in {"thesis_formulation", "literature_survey"}
       /\ state'.research_loop_count # state.research_loop_count =>
             node = "literature_survey"
      ]_vars

C36_Witness ==
    /\ last = "targeted_research"
    /\ node = "validation_check"
    /\ targeted_runs = 2
    /\ Len(state.web_research_results) = 3
    /\ state.research_loop_count = 1

\* the entry record_verification appended last
LastVerification(s) == s.verification_history[Len(s.verification_history)]

\* C37: for any sequence of request_verification and record_verification
\* calls on a state, human_verification_required is true exactly when the
\* most recent call was request_verification, verification_history has one
\* entry per record_verification call and is only appended to, and
\* record_verification changes validation_status only at the given step and
\* only if that step is one of its five keys, so the key set never changes.
C37_VerificationBookkeeping ==
    /\ [](/\ state.human_verification_required <=>
                last = "request_verification"
          /\ Len(state.verification_history) = record_calls
          /\ DOMAIN state.validation_status = validation_status_keys)
    /\ [][/\ IsPrefix(state.verification_history, state'.verification_history)
          /\ last' = "request_verification" =>
                /\ state'.verification_history = state.verification_history
                /\ state'.validation_status = state.validation_status
          /\ last' = "record_verification" =>
                /\ Len(state'.verification_history) =
                       Len(state.verification_history) + 1
                /\ \A k \in validation_status_keys :
                      state'.validation_status[k] =
                          IF k = LastVerification(state').step
                          THEN LastVerification(state').approved
                          ELSE state.validation_status[k]
         ]_vars

C37_Witness ==
    /\ last = "request_verification"
    /\ state.human_verification_required
    /\ record_calls = 3
    /\ Len(state.verification_history) = 3
    /\ state.verification_history[1].step = "thesis_review"
    /\ state.verification_history[1].approved
    /\ state.verification_history[2].step = "outline_approved"
    /\ state.verification_history[2].approved
    /\ state.verification_history[3].step = "outline_approved"
    /\ ~state.verification_history[3].approved
    /\ \A k \in validation_status_keys : ~state.validation_status[k]

\* what from_runnable_config resolves a field to before the falsy values
\* are dropped: the environment variable if set, else the configurable entry
Resolved(environ, config, name) ==
    IF Upper(name) \in DOMAIN environ THEN PyStr(environ[Upper(name)])
    ELSE IF ~config.is_none /\ config.has_configurable
              /\ name \in DOMAIN config.configurable
         THEN config.configurable[name]
         ELSE PyNone

\* C38: from_runnable_config resolves each field as the environment variable
\* named after the upper-cased field if set, else the value under
\* config['configurable'], else the class default; a resolved value that is
\* falsy (0, '', False, None) is dropped for the default, so a configured
\* max_targeted_research_attempts of 0 yields the default 2.
C38_FromRunnableConfigPrecedence ==
    utils_call.fn = "from_runnable_config" =>
        \A name \in ConfigurationFields :
            LET resolved == Resolved(utils_call.args.environ,
                                     utils_call.args.config, name)
            IN  utils_call.result[name] =
                    IF resolved \in {PyInt(0), PyStr(""), PyBool(FALSE), PyNone}
                    THEN ConfigurationDefaults[name]
                    ELSE resolved

C38_Witness ==
    /\ utils_call.fn = "from_runnable_config"
    /\ DOMAIN utils_call.args.environ = {"CITATION_STYLE"}
    /\ utils_call.args.environ["CITATION_STYLE"] = ""
    /\ utils_call.args.config.has_configurable
    /\ DOMAIN utils_call.args.config.configurable = ConfigurationFields
    /\ utils_call.args.config.configurable["max_targeted_research_attempts"]
           = PyInt(0)
    /\ utils_call.args.config.configurable["citation_style"] = PyStr("MLA")
    /\ utils_call.result["max_targeted_research_attempts"] = PyInt(2)
    /\ utils_call.result["citation_style"] = PyStr("APA")

===========================================================================
